---- MODULE Spec2Model ----
(***************************************************************************)
(* A model of src/lib/util/sbuff.c: the string-buffer cursor (fr_sbuff_t), *)
(* its search functions, its bulk copy family and its integer parsers.     *)
(*                                                                         *)
(* Pointers are offsets into the backing memory `buf` (offset 0 is the     *)
(* first byte), NULL is the offset -1.  Bytes are one-character strings,   *)
(* the terminator '\0' is the string "NUL", an unwritten byte of an output *)
(* buffer is "?".  size_t/ssize_t are SizeBits wide and long long /        *)
(* unsigned long long are WideBits wide: the arithmetic of the code is     *)
(* kept modulo the width, the width itself is scaled down.                 *)
(***************************************************************************)
EXTENDS Integers, Sequences, FiniteSets, TLC

VARIABLES buf, sbuff, out, last

vars == <<buf, sbuff, out, last>>

(* ------------------------------ bounds -------------------------------- *)

\* longest backing buffer of the cursor specification
MaxBuf == 3
\* largest output capacity (outlen) a caller passes
MaxOutLen == 4
\* width of size_t and ssize_t in bits
SizeBits == 5
\* width of long long and unsigned long long in bits
WideBits == 20
\* how far around each type boundary the numeric texts are drawn
Margin == 1

(* ------------------------- machine arithmetic ------------------------- *)

RECURSIVE Pow2(_)
Pow2(n) == IF n = 0 THEN 1 ELSE 2 * Pow2(n - 1)

SIZE_MAX == Pow2(SizeBits) - 1
SSIZE_MAX == Pow2(SizeBits - 1) - 1

\* a value reduced to size_t
ToSize(n) == n % (SIZE_MAX + 1)

\* a size_t value converted to ssize_t (two's complement)
ToSsize(u) == IF u > SSIZE_MAX THEN u - (SIZE_MAX + 1) ELSE u

LLONG_MAX == Pow2(WideBits - 1) - 1
LLONG_MIN == 0 - Pow2(WideBits - 1)
ULLONG_MAX == Pow2(WideBits) - 1

(* ------------------------------- bytes -------------------------------- *)

NUL == "NUL"
NULL == 0 - 1

\* the bytes the cursor specification builds its buffers from
Chars == {"a", " ", "1"}

Digits == <<"0", "1", "2", "3", "4", "5", "6", "7", "8", "9">>

IsSpace(c) == c \in {" ", "\t", "\n", "\r", "\f"}

IsDigit(c) == \E i \in 1..10 : Digits[i] = c

DigitVal(c) == (CHOOSE i \in 1..10 : Digits[i] = c) - 1

\* an output buffer of n bytes nobody has written yet
Fresh(n) == [i \in 1..n |-> "?"]

Min(a, b) == IF a < b THEN a ELSE b

\* all sequences over S of length at most n
SeqsUpTo(S, n) == UNION {[1..k -> S] : k \in 0..n}

(* ------------------------------ libc ---------------------------------- *)

\* memchr(s, c, n): offset of the first c among the n bytes at s, or NULL
RECURSIVE MemchrFrom(_, _, _, _)
MemchrFrom(s, c, n, i) ==
  IF i >= n THEN NULL
  ELSE IF buf[s + i + 1] = c THEN s + i
  ELSE MemchrFrom(s, c, n, i + 1)

Memchr(s, c, n) == MemchrFrom(s, c, n, 0)

\* does the needle sit at offset s of the memory?
RECURSIVE MatchAt(_, _, _, _)
MatchAt(s, needle, len, j) ==
  IF j >= len THEN TRUE
  ELSE IF buf[s + j + 1] # needle[j + 1] THEN FALSE
  ELSE MatchAt(s, needle, len, j + 1)

\* memmem(hay, haylen, needle, len): offset of the first occurrence, or NULL;
\* an empty needle is found at hay
RECURSIVE MemmemFrom(_, _, _, _, _)
MemmemFrom(hay, haylen, needle, len, i) ==
  IF i + len > haylen THEN NULL
  ELSE IF MatchAt(hay + i, needle, len, 0) THEN hay + i
  ELSE MemmemFrom(hay, haylen, needle, len, i + 1)

Memmem(hay, haylen, needle, len) == MemmemFrom(hay, haylen, needle, len, 0)

\* memcpy(dst, src, n) with src the n bytes at offset s of the memory
Memcpy(dst, s, n) ==
  [i \in 1..Len(dst) |-> IF i <= n THEN buf[s + i] ELSE dst[i]]

\* dst[i] = c for the C index i (a store outside the array is not modelled)
Store(dst, i, c) == [k \in 1..Len(dst) |-> IF k = i + 1 THEN c ELSE dst[k]]

(* ------------------------------ search -------------------------------- *)

\* fr_utf8_strchr(NULL, p, inlen, chr): first occurrence of the bytes of one
\* (possibly multi-byte) character
fr_utf8_strchr(p, inlen, chr) == Memmem(p, inlen, chr, Len(chr))

fr_sbuff_strchr_utf8(in, chr) ==
  LET p == in.p
      found == fr_utf8_strchr(p, in.end - in.p, chr)
  IN IF found = NULL THEN [in |-> in, ret |-> 0]
     ELSE [in |-> [in EXCEPT !.p = found], ret |-> ToSize(found - p)]

\* fr_sbuff_strchr searching backwards from end: the last occurrence wins
RECURSIVE MemrchrFrom(_, _, _)
MemrchrFrom(s, c, i) ==
  IF i < 0 THEN NULL
  ELSE IF buf[s + i + 1] = c THEN s + i
  ELSE MemrchrFrom(s, c, i - 1)

fr_sbuff_strchr_last(in, c) ==
  LET p == in.p
      found == MemrchrFrom(in.p, c, in.end - in.p - 1)
  IN IF found = NULL THEN [in |-> in, ret |-> 0]
     ELSE [in |-> [in EXCEPT !.p = found], ret |-> ToSize(found - p)]

fr_sbuff_strchr(in, c) ==
  LET p == in.p
      found == Memchr(in.p, c, in.end - in.p)
  IN IF found = NULL THEN [in |-> in, ret |-> 0]
     ELSE [in |-> [in EXCEPT !.p = found], ret |-> ToSize(found - p)]

\* needle is the caller's NUL-free byte string; len < 0 asks for strlen
fr_sbuff_strstr(in, needle, len) ==
  LET p == in.p
      len1 == IF len < 0 THEN Len(needle) ELSE len
      found == Memmem(in.p, in.end - in.p, needle, len1)
  IN IF found = NULL THEN [in |-> in, ret |-> 0]
     ELSE [in |-> [in EXCEPT !.p = found], ret |-> ToSize(found - p)]

\* the while loop of fr_sbuff_skip_whitespace
RECURSIVE SkipLoop(_)
SkipLoop(in) ==
  IF in.p < in.end /\ IsSpace(buf[in.p + 1])
  THEN SkipLoop([in EXCEPT !.p = in.p + 1])
  ELSE in

fr_sbuff_skip_whitespace(in) ==
  LET p == in.p
      in1 == SkipLoop(in)
  IN [in |-> in1, ret |-> ToSize(in1.p - p)]

(* ------------------------------- copy --------------------------------- *)

\* fr_sbuff_strncpy_exact reporting a short source as a negative shortfall too
fr_sbuff_strncpy_exact_shortfall(o, outlen, in, len) ==
  LET len1 == IF len = SIZE_MAX THEN in.end - in.p ELSE len
  IN IF outlen = 0
     THEN [in |-> in, out |-> o, ret |-> ToSsize(ToSize(0 - (len1 + 1)))]
     ELSE LET outlen1 == outlen - 1
          IN IF len1 > outlen1
             THEN [in |-> in, out |-> o, ret |-> ToSsize(ToSize(outlen1 - len1))]
             ELSE IF in.p + len1 > in.end
             THEN [in |-> in, out |-> o, ret |-> ToSsize(ToSize(in.end - in.p - len1))]
             ELSE [in |-> [in EXCEPT !.p = in.p + len1],
                   out |-> Store(Memcpy(o, in.p, len1), len1, NUL),
                   ret |-> ToSsize(len1)]

fr_sbuff_strncpy_exact(o, outlen, in, len) ==
  LET len1 == IF len = SIZE_MAX THEN in.end - in.p ELSE len
  IN IF outlen = 0
     THEN [in |-> in, out |-> o, ret |-> ToSsize(ToSize(0 - (len1 + 1)))]
     ELSE LET outlen1 == outlen - 1
          IN IF len1 > outlen1
             THEN [in |-> in, out |-> o, ret |-> ToSsize(ToSize(outlen1 - len1))]
             ELSE IF in.p + len1 > in.end
             THEN [in |-> in, out |-> o, ret |-> 0]
             ELSE [in |-> [in EXCEPT !.p = in.p + len1],
                   out |-> Store(Memcpy(o, in.p, len1), len1, NUL),
                   ret |-> ToSsize(len1)]

\* STRNCPY_TRIM_LEN trimming against the end of the memory, not of the cursor
STRNCPY_TRIM_LEN_memory(len, in, outlen) ==
  LET len1 == IF len = SIZE_MAX THEN Len(buf) - in.p ELSE len
      len2 == IF len1 > outlen THEN outlen ELSE len1
  IN IF in.p + len2 > Len(buf) THEN Len(buf) - in.p ELSE len2

\* STRNCPY_TRIM_LEN without the trim to the output's length
STRNCPY_TRIM_LEN_no_outlen(len, in, outlen) ==
  LET len1 == IF len = SIZE_MAX THEN in.end - in.p ELSE len
  IN IF in.p + len1 > in.end THEN in.end - in.p ELSE len1

STRNCPY_TRIM_LEN(len, in, outlen) ==
  LET len1 == IF len = SIZE_MAX THEN in.end - in.p ELSE len
      len2 == IF len1 > outlen THEN outlen ELSE len1
  IN IF in.p + len2 > in.end THEN in.end - in.p ELSE len2

\* fr_sbuff_strncpy without the byte kept for the terminator (no outlen--)
fr_sbuff_strncpy_no_reserve(o, outlen, in, len) ==
  IF outlen = 0 THEN [in |-> in, out |-> o, ret |-> 0]
  ELSE LET len1 == STRNCPY_TRIM_LEN(len, in, outlen)
       IN [in |-> [in EXCEPT !.p = in.p + len1],
           out |-> Store(Memcpy(o, in.p, len1), len1, NUL),
           ret |-> len1]

fr_sbuff_strncpy(o, outlen, in, len) ==
  IF outlen = 0 THEN [in |-> in, out |-> o, ret |-> 0]
  ELSE LET outlen1 == outlen - 1
           len1 == STRNCPY_TRIM_LEN(len, in, outlen1)
       IN [in |-> [in EXCEPT !.p = in.p + len1],
           out |-> Store(Memcpy(o, in.p, len1), len1, NUL),
           ret |-> len1]

\* while ((p < end) && allowed_chars[(uint8_t)*p]) *out_p++ = *p++; *out_p = '\0';
\* the table is the set of its non-zero entries, out_p the C index k into o
RECURSIVE AllowedLoop(_, _, _, _, _)
AllowedLoop(p, end, o, k, allowed_chars) ==
  IF p < end /\ buf[p + 1] \in allowed_chars
  THEN AllowedLoop(p + 1, end, Store(o, k, buf[p + 1]), k + 1, allowed_chars)
  ELSE [p |-> p, out |-> Store(o, k, NUL)]

fr_sbuff_strncpy_allowed(o, outlen, in, len, allowed_chars) ==
  IF outlen = 0 THEN [in |-> in, out |-> o, ret |-> 0]
  ELSE LET outlen1 == outlen - 1
           len1 == STRNCPY_TRIM_LEN(len, in, outlen1)
           loop == AllowedLoop(in.p, in.p + len1, o, 0, allowed_chars)
           copied == loop.p - in.p
       IN [in |-> [in EXCEPT !.p = in.p + copied], out |-> loop.out, ret |-> copied]

\* the loop of fr_sbuff_strncpy_until with the test not inverted
RECURSIVE UntilLoop_not_inverted(_, _, _, _, _)
UntilLoop_not_inverted(p, end, o, k, until) ==
  IF p < end /\ buf[p + 1] \in until
  THEN UntilLoop_not_inverted(p + 1, end, Store(o, k, buf[p + 1]), k + 1, until)
  ELSE [p |-> p, out |-> Store(o, k, NUL)]

\* while ((p < end) && !until[(uint8_t)*p]) *out_p++ = *p++; *out_p = '\0';
RECURSIVE UntilLoop(_, _, _, _, _)
UntilLoop(p, end, o, k, until) ==
  IF p < end /\ ~(buf[p + 1] \in until)
  THEN UntilLoop(p + 1, end, Store(o, k, buf[p + 1]), k + 1, until)
  ELSE [p |-> p, out |-> Store(o, k, NUL)]

fr_sbuff_strncpy_until(o, outlen, in, len, until) ==
  IF outlen = 0 THEN [in |-> in, out |-> o, ret |-> 0]
  ELSE LET outlen1 == outlen - 1
           len1 == STRNCPY_TRIM_LEN(len, in, outlen1)
           loop == UntilLoop(in.p, in.p + len1, o, 0, until)
           copied == loop.p - in.p
       IN [in |-> [in EXCEPT !.p = in.p + copied], out |-> loop.out, ret |-> copied]

(* ------------------------------ numbers ------------------------------- *)

\* the decimal text of an integer: digits, with a leading '-' when negative
RECURSIVE DecDigits(_)
DecDigits(n) ==
  IF n < 10 THEN <<Digits[n + 1]>>
  ELSE Append(DecDigits(n \div 10), Digits[(n % 10) + 1])

Dec(n) == IF n < 0 THEN <<"-">> \o DecDigits(0 - n) ELSE DecDigits(n)

\* sizeof(STRINGIFY(_v)): the text of the value and its terminator
SizeofStringify(v) == Len(Dec(v)) + 1

\* the buffer as a C string: a read past the last byte finds the terminator
CharAt(s, i) == IF i < Len(s) THEN s[i + 1] ELSE NUL

RECURSIVE SpaceSpan(_, _)
SpaceSpan(s, i) == IF IsSpace(CharAt(s, i)) THEN SpaceSpan(s, i + 1) ELSE i

RECURSIVE DigitSpan(_, _)
DigitSpan(s, i) == IF IsDigit(CharAt(s, i)) THEN DigitSpan(s, i + 1) ELSE i

\* the magnitude the digits s[i..j) denote; every magnitude above the widest
\* native maximum is kept as ULLONG_MAX + 1
RECURSIVE Magnitude(_, _, _, _)
Magnitude(s, i, j, acc) ==
  IF i >= j THEN acc
  ELSE Magnitude(s, i + 1, j,
                 Min(acc * 10 + DigitVal(CharAt(s, i)), ULLONG_MAX + 1))

\* the scan strtoll and strtoull share: white space, an optional sign, digits
Scan(s) ==
  LET i == SpaceSpan(s, 0)
      neg == CharAt(s, i) = "-"
      j == IF CharAt(s, i) \in {"-", "+"} THEN i + 1 ELSE i
      k == DigitSpan(s, j)
  IN [conv |-> k > j, neg |-> neg, mag |-> Magnitude(s, j, k, 0), end |-> k]

\* strtoll(buff, &end, 10): end is the count of characters consumed (0 when no
\* conversion was done), errno is set to ERANGE on saturation and kept otherwise
strtoll(s, errno) ==
  LET sc == Scan(s)
      v == IF sc.neg THEN 0 - sc.mag ELSE sc.mag
  IN IF ~sc.conv THEN [num |-> 0, end |-> 0, errno |-> errno]
     ELSE IF v > LLONG_MAX THEN [num |-> LLONG_MAX, end |-> sc.end, errno |-> "ERANGE"]
     ELSE IF v < LLONG_MIN THEN [num |-> LLONG_MIN, end |-> sc.end, errno |-> "ERANGE"]
     ELSE [num |-> v, end |-> sc.end, errno |-> errno]

\* strtoull(buff, &end, 10): a '-' negates the converted value in the unsigned type
strtoull(s, errno) ==
  LET sc == Scan(s)
  IN IF ~sc.conv THEN [num |-> 0, end |-> 0, errno |-> errno]
     ELSE IF sc.mag > ULLONG_MAX
     THEN [num |-> ULLONG_MAX, end |-> sc.end, errno |-> "ERANGE"]
     ELSE [num |-> IF sc.neg THEN (ULLONG_MAX + 1 - sc.mag) % (ULLONG_MAX + 1) ELSE sc.mag,
           end |-> sc.end, errno |-> errno]

\* FR_SBUFF_NO_ADVANCE(in): a copy of the cursor, so the caller's does not move
FR_SBUFF_NO_ADVANCE(in) == in

\* a variable the callee may store into: not stored yet / holding a value
Unset == [set |-> FALSE, val |-> 0]
Stored(v) == [set |-> TRUE, val |-> v]

INT8_MIN == -128
INT8_MAX == 127
INT16_MIN == -32768
INT16_MAX == 32767
INT64_MIN == LLONG_MIN
INT64_MAX == LLONG_MAX
UINT8_MAX == 255
UINT16_MAX == 65535
UINT64_MAX == ULLONG_MAX

\* PARSE_INT_DEF(_type, _min, _max): err tells whether the caller passed an
\* error pointer, errno is the indicator's value when the function is entered
PARSE_INT_DEF(min, max, err, in, errno) ==
  LET size == SizeofStringify(min)
      cp == fr_sbuff_strncpy(Fresh(size + 1), size + 1, FR_SBUFF_NO_ADVANCE(in), size)
      len == cp.ret
      err0 == IF len = 0 /\ err THEN Stored("NOT_FOUND") ELSE Unset
      r == strtoll(cp.out, errno)
      num == r.num
      res(e, o) == [in |-> in, ret |-> r.end, err |-> IF err THEN Stored(e) ELSE err0,
                    out |-> o, staged |-> SubSeq(cp.out, 1, len)]
  IN IF r.end = 0 THEN res("NOT_FOUND", Unset)
     ELSE IF num > max \/ (r.errno = "EINVAL" /\ num = LLONG_MAX)
     THEN res("INTEGER_OVERFLOW", Stored(max))
     ELSE IF num < min \/ (r.errno = "EINVAL" /\ num = LLONG_MIN)
     THEN res("INTEGER_UNDERFLOW", Stored(min))
     ELSE res("NOT_FOUND", Stored(num))

\* PARSE_UINT_DEF(_type, _max)
PARSE_UINT_DEF(max, err, in, errno) ==
  LET size == SizeofStringify(max)
      cp == fr_sbuff_strncpy(Fresh(size + 1), size + 1, FR_SBUFF_NO_ADVANCE(in), size)
      len == cp.ret
      err0 == IF len = 0 /\ err THEN Stored("NOT_FOUND") ELSE Unset
      r == strtoull(cp.out, errno)
      num == r.num
      res(e, o) == [in |-> in, ret |-> r.end, err |-> IF err THEN Stored(e) ELSE err0,
                    out |-> o, staged |-> SubSeq(cp.out, 1, len)]
  IN IF r.end = 0 THEN res("NOT_FOUND", Unset)
     ELSE IF num > max \/ (r.errno = "EINVAL" /\ num = ULLONG_MAX)
     THEN res("INTEGER_OVERFLOW", Stored(max))
     ELSE res("NOT_FOUND", Stored(num))

\* the instances of the two macros: 8 and 16 bits with their own limits, 64
\* bits with the limits of the native types
SignedTypes == {[name |-> "int8_t", signed |-> TRUE, min |-> INT8_MIN, max |-> INT8_MAX],
                [name |-> "int16_t", signed |-> TRUE, min |-> INT16_MIN, max |-> INT16_MAX],
                [name |-> "int64_t", signed |-> TRUE, min |-> INT64_MIN, max |-> INT64_MAX]}

UnsignedTypes == {[name |-> "uint8_t", signed |-> FALSE, min |-> 0, max |-> UINT8_MAX],
                  [name |-> "uint16_t", signed |-> FALSE, min |-> 0, max |-> UINT16_MAX],
                  [name |-> "uint64_t", signed |-> FALSE, min |-> 0, max |-> UINT64_MAX]}

ErrnoValues == {"0", "EINVAL", "ERANGE"}

(* --------------------------- state machine ---------------------------- *)

\* bytes an output buffer really has: the caller's outlen never exceeds it
OutPhys == MaxOutLen + 1

\* the lengths a caller asks for: around the buffer's size, around the sign
\* bit of ssize_t, and the "to end" value SIZE_MAX
LenValues == (0..(MaxBuf + 1)) \cup {SSIZE_MAX, SSIZE_MAX + 1, SIZE_MAX - 1, SIZE_MAX}

\* 256-entry tables, as the set of bytes whose entry is non-zero
Tables == SUBSET Chars

\* needles and multi-byte characters
Needles == SeqsUpTo(Chars, 2)

\* a cursor over a window of the memory
Cursors(mem) ==
  {[start |-> s, p |-> q, end |-> e] :
     <<s, q, e>> \in {t \in (0..Len(mem)) \X (0..Len(mem)) \X (0..Len(mem)) :
                        t[1] <= t[2] /\ t[2] <= t[3]}}

Call(op, ret, outlen, len, arg) ==
  [op |-> op, pre |-> sbuff, ret |-> ret, outlen |-> outlen, len |-> len, arg |-> arg]

Init ==
  /\ buf \in SeqsUpTo(Chars, MaxBuf)
  /\ sbuff \in Cursors(buf)
  /\ out = Fresh(OutPhys)
  /\ last = Call("idle", 0, 0, 0, <<>>)

Search(op, res, arg) ==
  /\ \E r \in {res} :
       /\ sbuff' = r.in
       /\ out' = Fresh(OutPhys)
       /\ last' = Call(op, r.ret, 0, 0, arg)
       /\ UNCHANGED buf

Copy(op, res, outlen, len, arg) ==
  /\ \E r \in {res} :
       /\ sbuff' = r.in
       /\ out' = r.out
       /\ last' = Call(op, r.ret, outlen, len, arg)
       /\ UNCHANGED buf

Parse(t, res, err, errno) ==
  /\ \E r \in {res} :
       /\ sbuff' = r.in
       /\ out' = Fresh(OutPhys)
       /\ last' = Call("parse", r.ret, 0, 0,
                       [type |-> t, errp |-> err, errno |-> errno, err |-> r.err,
                        out |-> r.out, staged |-> r.staged])
       /\ UNCHANGED buf

\* the caller has looked at the result and hands the cursor to its next call
Resume ==
  /\ last.op # "idle"
  /\ last' = [op |-> "idle", pre |-> sbuff, ret |-> 0, outlen |-> 0, len |-> 0, arg |-> <<>>]
  /\ out' = Fresh(OutPhys)
  /\ UNCHANGED <<buf, sbuff>>

StrchrUtf8 ==
  /\ last.op = "idle"
  /\ \E chr \in Needles \ {<<>>} :
       Search("find_utf8_char", fr_sbuff_strchr_utf8(sbuff, chr), chr)

Strchr ==
  /\ last.op = "idle"
  /\ \E c \in Chars : Search("find_char", fr_sbuff_strchr(sbuff, c), c)


Strstr ==
  /\ last.op = "idle"
  /\ \E needle \in Needles :
       \E len \in (0 - 1)..Len(needle) :
         Search("find_substring", fr_sbuff_strstr(sbuff, needle, len),
                [needle |-> needle, len |-> len])

SkipWhitespace ==
  /\ last.op = "idle"
  /\ Search("skip_whitespace", fr_sbuff_skip_whitespace(sbuff), <<>>)

StrncpyExact ==
  /\ last.op = "idle"
  /\ \E outlen \in 0..MaxOutLen, len \in LenValues :
       Copy("copy_exact", fr_sbuff_strncpy_exact(Fresh(OutPhys), outlen, sbuff, len),
            outlen, len, <<>>)

Strncpy ==
  /\ last.op = "idle"
  /\ \E outlen \in 0..MaxOutLen, len \in LenValues :
       Copy("copy_best_effort", fr_sbuff_strncpy(Fresh(OutPhys), outlen, sbuff, len),
            outlen, len, <<>>)

StrncpyAllowed ==
  /\ last.op = "idle"
  /\ \E outlen \in 0..MaxOutLen, len \in LenValues, allowed_chars \in Tables :
       Copy("copy_allowed",
            fr_sbuff_strncpy_allowed(Fresh(OutPhys), outlen, sbuff, len, allowed_chars),
            outlen, len, allowed_chars)

StrncpyUntil ==
  /\ last.op = "idle"
  /\ \E outlen \in 0..MaxOutLen, len \in LenValues, until \in Tables :
       Copy("copy_until",
            fr_sbuff_strncpy_until(Fresh(OutPhys), outlen, sbuff, len, until),
            outlen, len, until)

ParseInt ==
  /\ last.op = "idle"
  /\ \E t \in SignedTypes, err \in BOOLEAN, errno \in ErrnoValues :
       Parse(t, PARSE_INT_DEF(t.min, t.max, err, sbuff, errno), err, errno)

ParseUint ==
  /\ last.op = "idle"
  /\ \E t \in UnsignedTypes, err \in BOOLEAN, errno \in ErrnoValues :
       Parse(t, PARSE_UINT_DEF(t.max, err, sbuff, errno), err, errno)

Next ==
  \/ StrchrUtf8
  \/ Strchr
  \/ Strstr
  \/ SkipWhitespace
  \/ StrncpyExact
  \/ Strncpy
  \/ StrncpyAllowed
  \/ StrncpyUntil
  \/ ParseInt
  \/ ParseUint
  \/ Resume

Spec == Init /\ [][Next]_vars

(* ----------------------- the numeric specification -------------------- *)

Types == SignedTypes \cup UnsignedTypes

\* the magnitudes the numeric texts are drawn around: zero and every limit
TypeLimits == {0} \cup {t.max : t \in Types} \cup {0 - t.min : t \in SignedTypes}

NumValues ==
  {n \in UNION {(b - Margin)..(b + Margin) : b \in TypeLimits} : n >= 0} \cup {200, 70000}

\* optional white space, optional sign, the decimal text, an optional byte after it
NumericTexts ==
  {pre \o sign \o Dec(n) \o suf :
     pre \in {<<>>, <<" ">>}, sign \in {<<>>, <<"-">>, <<"+">>},
     n \in NumValues, suf \in {<<>>, <<"a">>, <<"0">>}}
  \cup {<<>>, <<"a", "b", "c">>, <<"-">>, <<" ">>, <<"-", "a">>}

InitParse ==
  /\ buf \in NumericTexts
  /\ sbuff = [start |-> 0, p |-> 0, end |-> Len(buf)]
  /\ out = Fresh(OutPhys)
  /\ last = Call("idle", 0, 0, 0, <<>>)

NextParse ==
  \/ ParseInt
  \/ ParseUint
  \/ Resume

SpecParse == InitParse /\ [][NextParse]_vars

(* ------------------------------ the claims ---------------------------- *)

\* what the last call saw when it was entered
PreP == last.pre.p
Rem == last.pre.end - last.pre.p
\* the requested length, "to end" replaced by the bytes that remain
LenEff == IF last.len = SIZE_MAX THEN Rem ELSE last.len
\* the window the trimmed copies work on
Window == Min(Min(LenEff, last.outlen - 1), Rem)
\* the k bytes that were at the position before the call
SrcBytes(k) == SubSeq(buf, PreP + 1, PreP + k)
Called == last.op # "idle"
CopyOps == {"copy_exact", "copy_best_effort", "copy_allowed", "copy_until"}
Moved(n) == sbuff.p = PreP + n

\* C1: whatever was called with whatever arguments, the cursor still has
\* start <= position <= end, and start and end are the ones it had before.
C1_CursorInBounds ==
  /\ sbuff.start <= sbuff.p
  /\ sbuff.p <= sbuff.end
  /\ sbuff.start = last.pre.start
  /\ sbuff.end = last.pre.end

\* a request for almost SIZE_MAX bytes moved the position exactly to end
C1_Witness ==
  /\ last.op = "copy_best_effort"
  /\ last.len = SIZE_MAX - 1
  /\ sbuff.end < Len(buf)
  /\ PreP < sbuff.p
  /\ sbuff.p = sbuff.end

\* C2: a positive return n means the position advanced by n, a zero or
\* negative return means the position did not move.
C2_AdvanceIffPositive ==
  Called =>
    /\ last.ret > 0 => Moved(last.ret)
    /\ last.ret <= 0 => Moved(0)

\* the offsets in [position, end) where the byte c sits
CharOccurrences(c) == {i \in PreP..(last.pre.end - 1) : buf[i + 1] = c}

\* the offsets in [position, end) where the len bytes of the needle sit
NeedleLen == IF last.arg.len < 0 THEN Len(last.arg.needle) ELSE last.arg.len
NeedleOccurrences ==
  {i \in PreP..(last.pre.end - NeedleLen) :
     SubSeq(buf, i + 1, i + NeedleLen) = SubSeq(last.arg.needle, 1, NeedleLen)}

FirstOrMiss(occ) ==
  IF occ = {}
  THEN Moved(0) /\ last.ret = 0
  ELSE \E i \in occ :
         /\ \A j \in occ : i <= j
         /\ sbuff.p = i
         /\ last.ret = i - PreP

\* C3: find_char and find_substring move the position to the first occurrence
\* in [position, end) and return its offset from the old position; without an
\* occurrence the position stays and 0 is returned.
C3_FirstOccurrence ==
  /\ last.op = "find_char" => FirstOrMiss(CharOccurrences(last.arg))
  /\ last.op = "find_substring" => FirstOrMiss(NeedleOccurrences)

\* a byte that occurs twice ahead of the position was found at the first place
C3_Witness ==
  /\ last.op = "find_char"
  /\ Cardinality(CharOccurrences(last.arg)) >= 2
  /\ last.ret > 0

SourceShort == last.op = "copy_exact" /\ Rem < LenEff
DestSmall == last.op = "copy_exact" /\ last.outlen < LenEff + 1

\* C4 as stated: with fewer than length bytes remaining copy_exact returns 0
\* and does not move, for every outlen; a negative return only comes from a
\* destination that is too small.
C4_ShortSourceAlwaysZero ==
  /\ SourceShort => last.ret = 0 /\ Moved(0)
  /\ last.op = "copy_exact" /\ last.ret < 0 => DestSmall

\* C4 amended: the destination is checked first.  With fewer than length bytes
\* remaining copy_exact never moves the position; it returns 0 when outlen has
\* room for length bytes and the terminator, and the non-zero shortfall of the
\* destination when it has not; a negative return only comes from a
\* destination that is too small.
C4_ShortSourceZeroIfRoom ==
  /\ SourceShort /\ ~DestSmall => last.ret = 0 /\ Moved(0) /\ out = Fresh(OutPhys)
  /\ SourceShort /\ DestSmall => last.ret # 0 /\ Moved(0) /\ out = Fresh(OutPhys)
  /\ last.op = "copy_exact" /\ last.ret < 0 => DestSmall

\* more bytes were asked for than remain, into a large enough destination
C4_Witness ==
  /\ SourceShort
  /\ ~DestSmall
  /\ Rem >= 1
  /\ last.ret = 0

\* C5: with 0 <= outlen < length + 1 ("to end" replaced by the bytes that
\* remain) copy_exact returns -(length + 1 - outlen), writes nothing and does
\* not move.
C5_NegativeShortfall ==
  DestSmall =>
    /\ last.ret = 0 - (LenEff + 1 - last.outlen)
    /\ out = Fresh(OutPhys)
    /\ Moved(0)

\* C6: copy_best_effort with outlen >= 1 copies k = min(length, outlen - 1,
\* remaining) bytes: out holds them and then the terminator, the position
\* advances by k and k is returned; with outlen = 0 it returns 0 and changes
\* neither out nor the position.
C6_BestEffort ==
  last.op = "copy_best_effort" =>
    IF last.outlen = 0
    THEN last.ret = 0 /\ Moved(0) /\ out = Fresh(OutPhys)
    ELSE /\ last.ret = Window
         /\ Moved(Window)
         /\ SubSeq(out, 1, Window) = SrcBytes(Window)
         /\ out[Window + 1] = NUL

\* "to end" was asked for and the destination was the smaller limit
C6_Witness ==
  /\ last.op = "copy_best_effort"
  /\ last.len = SIZE_MAX
  /\ last.outlen - 1 < Rem
  /\ last.ret = last.outlen - 1
  /\ last.ret >= 2

\* is the byte c one the copy takes: a member of the table for copy_allowed
\* (member = TRUE), a non-member for copy_until (member = FALSE)
Taken(c, member) == (c \in last.arg) = member

\* the longest prefix of the window whose bytes are all taken was copied
LongestPrefix(member) ==
  /\ last.ret \in 0..Window
  /\ \A i \in 1..last.ret : Taken(buf[PreP + i], member)
  /\ last.ret < Window => ~Taken(buf[PreP + last.ret + 1], member)
  /\ Moved(last.ret)
  /\ SubSeq(out, 1, last.ret) = SrcBytes(last.ret)
  /\ out[last.ret + 1] = NUL

\* the table with every entry inverted
Complement(T) == Chars \ T

\* C7: copy_allowed (copy_until) with outlen >= 1 copies the longest prefix of
\* the window whose bytes are all members (all non-members) of the table,
\* returns its length, advances by it, terminates out, and leaves the first
\* byte that stopped it unconsumed; copy_until with T gives what copy_allowed
\* gives with the complement of T.
C7_FilteredCopy ==
  /\ last.op = "copy_allowed" /\ last.outlen >= 1 => LongestPrefix(TRUE)
  /\ last.op = "copy_until" /\ last.outlen >= 1 =>
       /\ LongestPrefix(FALSE)
       /\ [in |-> sbuff, out |-> out, ret |-> last.ret]
            = fr_sbuff_strncpy_allowed(Fresh(OutPhys), last.outlen, last.pre,
                                       last.len, Complement(last.arg))

\* copy_until stopped at a member of the table inside the window
C7_Witness ==
  /\ last.op = "copy_until"
  /\ last.outlen >= 1
  /\ last.ret >= 1
  /\ last.ret < Window
  /\ buf[sbuff.p + 1] \in last.arg

\* no byte at a C index >= outlen was written
TailUntouched == \A i \in (last.outlen + 1)..OutPhys : out[i] = "?"

\* C8 as stated: after every call of a copy function, on every return path,
\* out holds a terminator at an index below outlen and nothing at or above
\* outlen was written.
C8_AlwaysTerminated ==
  last.op \in CopyOps =>
    /\ \E i \in 1..last.outlen : out[i] = NUL
    /\ TailUntouched

\* C8 amended: the trimmed copies with outlen >= 1, and copy_exact when it
\* succeeds, leave the terminator at the index they return, which is below
\* outlen; with outlen = 0, and on the two failure paths of copy_exact, out is
\* not written at all; nothing at or above outlen is ever written.
C8_TerminatedWhenWritten ==
  last.op \in CopyOps =>
    /\ TailUntouched
    /\ IF \/ last.outlen = 0
          \/ last.op = "copy_exact" /\ (SourceShort \/ DestSmall)
       THEN out = Fresh(OutPhys)
       ELSE /\ last.ret >= 0
            /\ last.ret < last.outlen
            /\ out[last.ret + 1] = NUL

\* the terminator went into the last byte of the destination
C8_Witness ==
  /\ last.op = "copy_allowed"
  /\ last.outlen >= 2
  /\ last.ret = last.outlen - 1
  /\ out[last.outlen] = NUL

\* the value the staged text denotes, as far as the native scan reads it
Staged == Scan(last.arg.staged)
Denoted == IF Staged.neg THEN 0 - Staged.mag ELSE Staged.mag
Reports(e) == last.arg.errp => last.arg.err = Stored(e)

\* C9: nothing consumed: 0 is returned, NotFound reported, the value left
\* alone; min <= v <= max: v is stored and NotFound (no error) reported;
\* v > max: max is stored and IntegerOverflow reported; signed and v < min:
\* min is stored and IntegerUnderflow reported; in the last three cases the
\* count of consumed characters is returned, and a supplied error output is
\* always written.
C9_Classification ==
  last.op = "parse" =>
    LET t == last.arg.type
        v == Denoted
    IN /\ last.arg.errp => last.arg.err.set
       /\ ~Staged.conv =>
            last.ret = 0 /\ Reports("NOT_FOUND") /\ last.arg.out = Unset
       /\ Staged.conv => last.ret = Staged.end /\ last.ret > 0
       /\ Staged.conv /\ t.min <= v /\ v <= t.max =>
            last.arg.out = Stored(v) /\ Reports("NOT_FOUND")
       /\ Staged.conv /\ v > t.max =>
            last.arg.out = Stored(t.max) /\ Reports("INTEGER_OVERFLOW")
       /\ Staged.conv /\ t.signed /\ v < t.min =>
            last.arg.out = Stored(t.min) /\ Reports("INTEGER_UNDERFLOW")

WideCall == last.op = "parse" /\ last.arg.type.name \in {"int64_t", "uint64_t"}

\* C10: a staged text beyond the range of the native parser is reported by the
\* 64-bit parsers as IntegerOverflow (IntegerUnderflow below the signed
\* minimum), a text denoting exactly the 64-bit maximum or minimum as no
\* error, whatever errno held before the call.
C10_Saturation ==
  WideCall /\ Staged.conv =>
    LET t == last.arg.type
        v == Denoted
    IN /\ v > t.max => Reports("INTEGER_OVERFLOW")
       /\ t.signed /\ v < t.min => Reports("INTEGER_UNDERFLOW")
       /\ v = t.max \/ (t.signed /\ v = t.min) => Reports("NOT_FOUND")

====
